---- MODULE Spec2Model ----
(***************************************************************************)
(* Knowledge distillation driver (src/src/model_distiller.py): the         *)
(* checkpoint store (save_ckpt / load_ckpt), the evaluator (evaluate), the *)
(* training loop (distill / distill_one_epoch) and main's wiring.          *)
(*                                                                         *)
(* Tensors are abstracted: a model's parameters are a version number (the  *)
(* number of optimizer steps that produced them), an accuracy is a level   *)
(* 0..MaxAcc (0 is 0.0), an optimizer / scheduler state is the number of   *)
(* steps it has taken.                                                     *)
(***************************************************************************)
EXTENDS Integers, Sequences, FiniteSets, TLC

\* ------------------------------------------------------------------ bounds
NumWorkers == 2      \* processes of a distributed run (world size)
NumEpochs  == 2      \* train_config['epoch']
NumBatches == 2      \* len(train_data_loader)
MaxAcc     == 2      \* accuracy levels 0..MaxAcc
MaxRuns    == 2      \* successive invocations of the program on one file system
MaxState   == 1      \* object states drawn for the checkpoint round trip
NumThreads == 4      \* torch.get_num_threads() when the process starts

Ranks == 0 .. (NumWorkers - 1)
Acc   == 0 .. MaxAcc

\* ------------------------------------------------------- values and objects
None    == << >>
Some(x) == << x >>
IsNone(x) == x = << >>

Config == "config"
NoArgs == [start_epoch |-> 0, test_only |-> FALSE, student_only |-> FALSE, apex |-> FALSE]

\* model.state_dict(): the parameters under the keys of the object it is called on;
\* a DistributedDataParallel wrapper prefixes every key with "module."
state_dict(model) == [prefix |-> IF model.ddp THEN "module." ELSE "", w |-> model.w]

\* model.module of a DistributedDataParallel wrapper
module(model) == [ddp |-> FALSE, w |-> model.w]

\* model.load_state_dict(sd, strict): with strict, keys that do not match raise
load_state_dict(model, sd, strict) ==
    IF sd.prefix = state_dict(model).prefix
    THEN [obj |-> [model EXCEPT !.w = sd.w], raised |-> FALSE]
    ELSE [obj |-> model, raised |-> strict]

NoFile == [exists |-> FALSE, model |-> [prefix |-> "", w |-> 0], optimizer |-> 0,
           best_value |-> 0, lr_scheduler |-> 0, config |-> Config, args |-> NoArgs]

check_if_exists(ckpt_file) == ckpt_file.exists

is_main_process(rank) == rank = 0

\* main_util.save_on_master: only the main process writes
save_on_master(obj, output_file, rank) ==
    IF is_main_process(rank) THEN [obj EXCEPT !.exists = TRUE] ELSE output_file

\* save_ckpt saving the state of the object it is given, wrapper or not
save_ckpt_no_unwrap(model, optimizer, lr_scheduler, best_value, config, args, output_file, rank) ==
    save_on_master([exists |-> FALSE, model |-> state_dict(model), optimizer |-> optimizer,
                    best_value |-> best_value, lr_scheduler |-> lr_scheduler,
                    config |-> config, args |-> args], output_file, rank)

\* save_ckpt: the state of the wrapped module under DistributedDataParallel
save_ckpt(model, optimizer, lr_scheduler, best_value, config, args, output_file, rank) ==
    LET model_state_dict == IF model.ddp THEN state_dict(module(model)) ELSE state_dict(model)
    IN  save_on_master([exists |-> FALSE, model |-> model_state_dict, optimizer |-> optimizer,
                        best_value |-> best_value, lr_scheduler |-> lr_scheduler,
                        config |-> config, args |-> args], output_file, rank)

\* load_ckpt: the objects after the call, the returned tuple, whether it raised
load_ckpt(ckpt_file, model, optimizer, lr_scheduler, strict) ==
    IF ~check_if_exists(ckpt_file)
    THEN [model |-> model, optimizer |-> optimizer, lr_scheduler |-> lr_scheduler,
          ret |-> << None, None >>, raised |-> FALSE]
    ELSE LET m == IF IsNone(model) THEN [obj |-> None, raised |-> FALSE]
                  ELSE LET r == load_state_dict(model[1], ckpt_file.model, strict)
                       IN  [obj |-> Some(r.obj), raised |-> r.raised]
         IN  IF m.raised
             THEN [model |-> m.obj, optimizer |-> optimizer, lr_scheduler |-> lr_scheduler,
                   ret |-> << >>, raised |-> TRUE]
             ELSE [model |-> m.obj,
                   optimizer |-> IF IsNone(optimizer) THEN None
                                 ELSE Some(ckpt_file.optimizer),
                   lr_scheduler |-> IF IsNone(lr_scheduler) THEN None
                                    ELSE Some(ckpt_file.lr_scheduler),
                   ret |-> << ckpt_file.best_value, ckpt_file.config, ckpt_file.args >>,
                   raised |-> FALSE]

\* get_model: a freshly built model, then load_ckpt whose result is discarded
get_model(ckpt_file, fresh) ==
    LET r == load_ckpt(ckpt_file, Some(fresh), None, None, TRUE)
    IN  [model |-> r.model[1], raised |-> r.raised]

\* distill, lines 147-149, with the existence test dropped
distill_resume_no_check(ckpt_file, optimizer, lr_scheduler) ==
    LET r == load_ckpt(ckpt_file, None, Some(optimizer), Some(lr_scheduler), TRUE)
    IN  IF r.raised \/ Len(r.ret) # 3
        THEN [best_val_top1_accuracy |-> 0, best_val_map |-> None,
              optimizer |-> r.optimizer[1], lr_scheduler |-> r.lr_scheduler[1],
              raised |-> TRUE]
        ELSE [best_val_top1_accuracy |-> 0, best_val_map |-> Some(r.ret[1]),
              optimizer |-> r.optimizer[1], lr_scheduler |-> r.lr_scheduler[1],
              raised |-> FALSE]

\* distill, lines 147-149: best_val_top1_accuracy = 0.0; when the file exists the
\* result of load_ckpt is unpacked three ways into best_val_map, _, _ (an unpacking
\* of a tuple of another length raises)
distill_resume(ckpt_file, optimizer, lr_scheduler) ==
    IF check_if_exists(ckpt_file)
    THEN LET r == load_ckpt(ckpt_file, None, Some(optimizer), Some(lr_scheduler), TRUE)
         IN  IF r.raised \/ Len(r.ret) # 3
             THEN [best_val_top1_accuracy |-> 0, best_val_map |-> None,
                   optimizer |-> r.optimizer[1], lr_scheduler |-> r.lr_scheduler[1],
                   raised |-> TRUE]
             ELSE [best_val_top1_accuracy |-> 0, best_val_map |-> Some(r.ret[1]),
                   optimizer |-> r.optimizer[1], lr_scheduler |-> r.lr_scheduler[1],
                   raised |-> FALSE]
    ELSE [best_val_top1_accuracy |-> 0, best_val_map |-> None,
          optimizer |-> optimizer, lr_scheduler |-> lr_scheduler, raised |-> FALSE]

\* main, lines 228-230: reload the student from the checkpoint, result discarded
main_reload(ckpt_file, student_model) ==
    LET student_model_without_ddp ==
            IF student_model.ddp THEN module(student_model) ELSE student_model
        r == load_ckpt(ckpt_file, Some(student_model_without_ddp), None, None, TRUE)
    IN  [w |-> r.model[1].w, raised |-> r.raised]


\* ------------------------------------------------------------------- state
VARIABLES
    run,            \* number of the current invocation of the program
    distributed,    \* result of init_distributed_mode
    argv,           \* the parsed command line (args)
    file,           \* the file at config['mimic_model']['ckpt']
    syncval,        \* global average produced by the latest metric synchronization
    vals,           \* history: validation accuracies seen by the main process in this run
    pc,             \* each process's position
    site,           \* which call of evaluate a process is in: "val", "teacher", "student"
    epoch,          \* distill's loop variable
    batch,          \* index of the batch distill_one_epoch is at
    weights,        \* parameters of the student (of the wrapped module under DDP)
    grad,           \* number of backward passes accumulated in the gradients
    optim,          \* optimizer state
    sched,          \* lr_scheduler state
    best,           \* best_val_top1_accuracy
    val,            \* val_top1_accuracy
    smode,          \* student_model.training: "train" / "eval"
    tmode,          \* teacher_model.training
    threads,        \* torch.get_num_threads()
    num_threads,    \* evaluate's local num_threads
    sampler_epoch,  \* train_data_loader.sampler's epoch, set by set_epoch
    clog,           \* history: collective operations each process has entered
    elog,           \* history: steps of the current epoch
    blog,           \* history: steps of the current batch
    mlog,           \* history: models main has evaluated on the test split
    epochs_run,     \* history: epochs whose body was entered in this run
    ck              \* state of the checkpoint round trip (SpecCkpt)

glob   == << run, distributed, argv >>
loopv  == << epoch, batch, sampler_epoch, epochs_run >>
trainv == << weights, grad, optim, sched >>
evalv  == << threads, num_threads, smode, tmode, site >>
bestv  == << best, val, vals >>
logv   == << elog, blog, mlog >>
vars   == << run, distributed, argv, file, syncval, vals, pc, site, epoch, batch, weights,
             grad, optim, sched, best, val, smode, tmode, threads, num_threads,
             sampler_epoch, clog, elog, blog, mlog, epochs_run, ck >>

\* the processes of the run: one when init_distributed_mode reports no distributed mode
World == IF distributed THEN Ranks ELSE {0}

\* the default process group exists only in distributed mode
pg_initialized == distributed

\* main, lines 220-222: the student is wrapped in DistributedDataParallel
student_model(w) == [ddp |-> distributed, w |-> weights[w]]

ArgSet == [start_epoch : 0 .. (NumEpochs + 1), test_only : BOOLEAN,
           student_only : BOOLEAN, apex : BOOLEAN]

\* the state of the processes when main is entered
ProcInit(d) ==
    /\ pc = [w \in Ranks |-> IF d \/ w = 0 THEN "main" ELSE "idle"]
    /\ site = [w \in Ranks |-> "none"]
    /\ epoch = [w \in Ranks |-> 0]
    /\ batch = [w \in Ranks |-> 0]
    /\ weights = [w \in Ranks |-> 0]
    /\ grad = [w \in Ranks |-> 0]
    /\ optim = [w \in Ranks |-> 0]
    /\ sched = [w \in Ranks |-> 0]
    /\ best = [w \in Ranks |-> 0]
    /\ val = [w \in Ranks |-> 0]
    /\ smode = [w \in Ranks |-> "train"]
    /\ tmode = [w \in Ranks |-> "train"]
    /\ threads = [w \in Ranks |-> NumThreads]
    /\ num_threads = [w \in Ranks |-> NumThreads]
    /\ sampler_epoch = [w \in Ranks |-> None]
    /\ clog = [w \in Ranks |-> << >>]
    /\ elog = [w \in Ranks |-> << >>]
    /\ blog = [w \in Ranks |-> << >>]
    /\ mlog = [w \in Ranks |-> << >>]
    /\ epochs_run = [w \in Ranks |-> << >>]
    /\ syncval = 0
    /\ vals = << >>

\* the same, as the state a new invocation starts in
ProcReset(d) ==
    /\ pc' = [w \in Ranks |-> IF d \/ w = 0 THEN "main" ELSE "idle"]
    /\ site' = [w \in Ranks |-> "none"]
    /\ epoch' = [w \in Ranks |-> 0]
    /\ batch' = [w \in Ranks |-> 0]
    /\ weights' = [w \in Ranks |-> 0]
    /\ grad' = [w \in Ranks |-> 0]
    /\ optim' = [w \in Ranks |-> 0]
    /\ sched' = [w \in Ranks |-> 0]
    /\ best' = [w \in Ranks |-> 0]
    /\ val' = [w \in Ranks |-> 0]
    /\ smode' = [w \in Ranks |-> "train"]
    /\ tmode' = [w \in Ranks |-> "train"]
    /\ threads' = [w \in Ranks |-> NumThreads]
    /\ num_threads' = [w \in Ranks |-> NumThreads]
    /\ sampler_epoch' = [w \in Ranks |-> None]
    /\ clog' = [w \in Ranks |-> << >>]
    /\ elog' = [w \in Ranks |-> << >>]
    /\ blog' = [w \in Ranks |-> << >>]
    /\ mlog' = [w \in Ranks |-> << >>]
    /\ epochs_run' = [w \in Ranks |-> << >>]
    /\ syncval' = 0
    /\ vals' = << >>

CkIdle == [file |-> NoFile, model |-> [ddp |-> FALSE, w |-> 0], optimizer |-> 0,
           lr_scheduler |-> 0, model2 |-> [ddp |-> FALSE, w |-> 0], optimizer2 |-> 0,
           lr_scheduler2 |-> 0, ret |-> << >>, raised |-> FALSE, last |-> "idle",
           src |-> None, pre |-> None, passed |-> << FALSE, FALSE, FALSE >>]

\* a single-process run on a file system without a checkpoint
Init ==
    /\ run = 1
    /\ distributed = FALSE
    /\ argv \in ArgSet
    /\ file = NoFile
    /\ ProcInit(FALSE)
    /\ ck = CkIdle

\* ----------------------------------------------------------------- actions
\* main, lines 224-225
Main(w) ==
    /\ pc[w] = "main"
    /\ pc' = [pc EXCEPT ![w] = IF ~argv.test_only THEN "distill" ELSE "test"]
    /\ UNCHANGED << glob, file, syncval, loopv, trainv, evalv, bestv, logv, clog, ck >>

\* distill, lines 139-158: fresh optimizer and scheduler, the resume block, the
\* loop variable set to start_epoch
DistillInit(w) ==
    /\ pc[w] = "distill"
    /\ LET r == distill_resume(file, 0, 0)
       IN  /\ optim' = [optim EXCEPT ![w] = r.optimizer]
           /\ sched' = [sched EXCEPT ![w] = r.lr_scheduler]
           /\ best' = [best EXCEPT ![w] = r.best_val_top1_accuracy]
           /\ pc' = [pc EXCEPT ![w] = IF r.raised THEN "raised" ELSE "epoch"]
    /\ epoch' = [epoch EXCEPT ![w] = argv.start_epoch]
    /\ UNCHANGED << glob, file, syncval, batch, sampler_epoch, epochs_run, weights, grad,
                    evalv, val, vals, logv, clog, ck >>

\* distill, lines 159-164: the loop test, set_epoch in distributed mode, the modes
EpochHead(w) ==
    /\ pc[w] = "epoch"
    /\ IF epoch[w] < NumEpochs
       THEN /\ sampler_epoch' = [sampler_epoch EXCEPT
                                   ![w] = IF distributed THEN Some(epoch[w]) ELSE @]
            /\ tmode' = [tmode EXCEPT ![w] = "eval"]
            /\ smode' = [smode EXCEPT ![w] = "train"]
            /\ epochs_run' = [epochs_run EXCEPT ![w] = Append(@, epoch[w])]
            /\ elog' = [elog EXCEPT ![w] = IF NumBatches > 0 THEN << >> ELSE << "train" >>]
            /\ batch' = [batch EXCEPT ![w] = 0]
            /\ pc' = [pc EXCEPT ![w] = IF NumBatches > 0 THEN "forward" ELSE "evaluate"]
            /\ site' = [site EXCEPT ![w] = IF NumBatches > 0 THEN @ ELSE "val"]
       ELSE /\ pc' = [pc EXCEPT ![w] = "barrier"]
            /\ UNCHANGED << sampler_epoch, tmode, smode, epochs_run, elog, batch, site >>
    /\ UNCHANGED << glob, file, syncval, epoch, trainv, threads, num_threads, bestv, blog,
                    mlog, clog, ck >>

\* distill_one_epoch, lines 88-91: the next batch, the distillation loss
Forward(w) ==
    /\ pc[w] = "forward"
    /\ blog' = [blog EXCEPT ![w] = << "forward" >>]
    /\ pc' = [pc EXCEPT ![w] = "zero_grad"]
    /\ UNCHANGED << glob, file, syncval, loopv, trainv, evalv, bestv, elog, mlog, clog, ck >>

\* a batch whose gradients are not zeroed
ZeroGrad_skipped(w) ==
    /\ pc[w] = "zero_grad"
    /\ blog' = [blog EXCEPT ![w] = Append(@, "zero_grad")]
    /\ pc' = [pc EXCEPT ![w] = "backward"]
    /\ UNCHANGED << glob, file, syncval, loopv, trainv, evalv, bestv, elog, mlog, clog, ck >>

\* distill_one_epoch, line 92
ZeroGrad(w) ==
    /\ pc[w] = "zero_grad"
    /\ grad' = [grad EXCEPT ![w] = 0]
    /\ blog' = [blog EXCEPT ![w] = Append(@, "zero_grad")]
    /\ pc' = [pc EXCEPT ![w] = "backward"]
    /\ UNCHANGED << glob, file, syncval, loopv, weights, optim, sched, evalv, bestv, elog,
                    mlog, clog, ck >>

\* distill_one_epoch, lines 93-97: backward adds this batch's gradients
Backward(w) ==
    /\ pc[w] = "backward"
    /\ grad' = [grad EXCEPT ![w] = @ + 1]
    /\ blog' = [blog EXCEPT ![w] = Append(@, IF argv.apex THEN "scaled_backward"
                                                          ELSE "backward")]
    /\ pc' = [pc EXCEPT ![w] = "step"]
    /\ UNCHANGED << glob, file, syncval, loopv, weights, optim, sched, evalv, bestv, elog,
                    mlog, clog, ck >>

\* distill_one_epoch, line 98
OptimizerStep(w) ==
    /\ pc[w] = "step"
    /\ weights' = [weights EXCEPT ![w] = @ + 1]
    /\ optim' = [optim EXCEPT ![w] = @ + 1]
    /\ blog' = [blog EXCEPT ![w] = Append(@, "step")]
    /\ pc' = [pc EXCEPT ![w] = "meters"]
    /\ UNCHANGED << glob, file, syncval, loopv, grad, sched, evalv, bestv, elog, mlog,
                    clog, ck >>

\* the end of the epoch's training pass going on without the validation evaluate
UpdateMeters_no_evaluate(w) ==
    /\ pc[w] = "meters"
    /\ blog' = [blog EXCEPT ![w] = Append(@, "meters")]
    /\ batch' = [batch EXCEPT ![w] = @ + 1]
    /\ IF batch[w] + 1 < NumBatches
       THEN /\ pc' = [pc EXCEPT ![w] = "forward"]
            /\ UNCHANGED << elog, site >>
       ELSE /\ pc' = [pc EXCEPT ![w] = "compare"]
            /\ elog' = [elog EXCEPT ![w] = Append(@, "train")]
            /\ site' = [site EXCEPT ![w] = "val"]
    /\ UNCHANGED << glob, file, syncval, epoch, sampler_epoch, epochs_run, trainv, threads,
                    num_threads, smode, tmode, bestv, mlog, clog, ck >>

\* distill_one_epoch, lines 100-102, and the loop's next iteration or its end
\* (distill, lines 165-167: the call of evaluate on the validation split)
UpdateMeters(w) ==
    /\ pc[w] = "meters"
    /\ blog' = [blog EXCEPT ![w] = Append(@, "meters")]
    /\ batch' = [batch EXCEPT ![w] = @ + 1]
    /\ IF batch[w] + 1 < NumBatches
       THEN /\ pc' = [pc EXCEPT ![w] = "forward"]
            /\ UNCHANGED << elog, site >>
       ELSE /\ pc' = [pc EXCEPT ![w] = "evaluate"]
            /\ elog' = [elog EXCEPT ![w] = Append(@, "train")]
            /\ site' = [site EXCEPT ![w] = "val"]
    /\ UNCHANGED << glob, file, syncval, epoch, sampler_epoch, epochs_run, trainv, threads,
                    num_threads, smode, tmode, bestv, mlog, clog, ck >>

\* every process of the run has entered the collective that w is in, and it is
\* the same operation for all of them
AllArrived(w) ==
    LET k == Len(clog[w])
    IN  \A v \in World : Len(clog[v]) >= k /\ clog[v][k] = clog[w][k]

\* evaluate, lines 107-126: one framework thread, eval mode, the forward passes
\* over the loader under no_grad
EvalBegin(w) ==
    /\ pc[w] = "evaluate"
    /\ num_threads' = [num_threads EXCEPT ![w] = threads[w]]
    /\ threads' = [threads EXCEPT ![w] = 1]
    /\ IF site[w] = "teacher"
       THEN tmode' = [tmode EXCEPT ![w] = "eval"] /\ UNCHANGED smode
       ELSE smode' = [smode EXCEPT ![w] = "eval"] /\ UNCHANGED tmode
    /\ pc' = [pc EXCEPT ![w] = "synchronize"]
    /\ UNCHANGED << glob, file, syncval, loopv, trainv, site, bestv, logv, clog, ck >>

\* evaluate, line 129: synchronize_between_processes; in distributed mode a
\* collective that yields the same global average on every process
EvalSync(w) ==
    /\ pc[w] = "synchronize"
    /\ \E a \in Acc :
         IF distributed
         THEN /\ clog' = [clog EXCEPT ![w] = Append(@, "sync")]
              /\ syncval' = IF \A v \in World \ {w} : Len(clog[v]) > Len(clog[w])
                            THEN a ELSE syncval
         ELSE /\ syncval' = a
              /\ UNCHANGED clog
    /\ pc' = [pc EXCEPT ![w] = "eval_end"]
    /\ UNCHANGED << glob, file, loopv, trainv, evalv, bestv, logv, ck >>

\* evaluate returning without restoring the thread count
EvalEnd_keeps_one_thread(w) ==
    /\ pc[w] = "eval_end"
    /\ distributed => AllArrived(w)
    /\ CASE site[w] = "val" ->
              /\ val' = [val EXCEPT ![w] = syncval]
              /\ vals' = IF is_main_process(w) THEN Append(vals, syncval) ELSE vals
              /\ elog' = [elog EXCEPT ![w] = Append(@, "evaluate")]
              /\ pc' = [pc EXCEPT ![w] = "compare"]
              /\ UNCHANGED << mlog, site >>
         [] site[w] = "teacher" ->
              /\ mlog' = [mlog EXCEPT ![w] = Append(@, "teacher")]
              /\ site' = [site EXCEPT ![w] = "student"]
              /\ pc' = [pc EXCEPT ![w] = "evaluate"]
              /\ UNCHANGED << val, vals, elog >>
         [] OTHER ->
              /\ mlog' = [mlog EXCEPT ![w] = Append(@, "student")]
              /\ pc' = [pc EXCEPT ![w] = "done"]
              /\ UNCHANGED << val, vals, elog, site >>
    /\ UNCHANGED << glob, file, syncval, loopv, trainv, threads, num_threads, smode, tmode,
                    best, blog, clog, ck >>

\* evaluate, lines 130-134, once the synchronization has completed: the thread
\* count is restored and the global top-1 average returned to the caller
\* (distill line 166, main lines 233 and 234)
EvalEnd(w) ==
    /\ pc[w] = "eval_end"
    /\ distributed => AllArrived(w)
    /\ threads' = [threads EXCEPT ![w] = num_threads[w]]
    /\ CASE site[w] = "val" ->
              /\ val' = [val EXCEPT ![w] = syncval]
              /\ vals' = IF is_main_process(w) THEN Append(vals, syncval) ELSE vals
              /\ elog' = [elog EXCEPT ![w] = Append(@, "evaluate")]
              /\ pc' = [pc EXCEPT ![w] = "compare"]
              /\ UNCHANGED << mlog, site >>
         [] site[w] = "teacher" ->
              /\ mlog' = [mlog EXCEPT ![w] = Append(@, "teacher")]
              /\ site' = [site EXCEPT ![w] = "student"]
              /\ pc' = [pc EXCEPT ![w] = "evaluate"]
              /\ UNCHANGED << val, vals, elog >>
         [] OTHER ->
              /\ mlog' = [mlog EXCEPT ![w] = Append(@, "student")]
              /\ pc' = [pc EXCEPT ![w] = "done"]
              /\ UNCHANGED << val, vals, elog, site >>
    /\ UNCHANGED << glob, file, syncval, loopv, trainv, num_threads, smode, tmode, best,
                    blog, clog, ck >>

\* the comparison with >= in place of >
Compare_not_strict(w) ==
    /\ pc[w] = "compare"
    /\ IF val[w] >= best[w] /\ is_main_process(w)
       THEN /\ best' = [best EXCEPT ![w] = val[w]]
            /\ file' = save_ckpt(module(student_model(w)), optim[w], sched[w], val[w],
                                 Config, argv, file, w)
            /\ elog' = [elog EXCEPT ![w] = Append(@, "save")]
       ELSE UNCHANGED << best, file, elog >>
    /\ pc' = [pc EXCEPT ![w] = "lr_step"]
    /\ UNCHANGED << glob, syncval, loopv, trainv, evalv, val, vals, blog, mlog, clog, ck >>

\* distill, lines 168-173: a new best on the main process is recorded and saved
Compare(w) ==
    /\ pc[w] = "compare"
    /\ IF val[w] > best[w] /\ is_main_process(w)
       THEN /\ best' = [best EXCEPT ![w] = val[w]]
            /\ file' = save_ckpt(module(student_model(w)), optim[w], sched[w], val[w],
                                 Config, argv, file, w)
            /\ elog' = [elog EXCEPT ![w] = Append(@, "save")]
       ELSE UNCHANGED << best, file, elog >>
    /\ pc' = [pc EXCEPT ![w] = "lr_step"]
    /\ UNCHANGED << glob, syncval, loopv, trainv, evalv, val, vals, blog, mlog, clog, ck >>

\* distill, line 174, and the loop's increment
LrStep(w) ==
    /\ pc[w] = "lr_step"
    /\ sched' = [sched EXCEPT ![w] = @ + 1]
    /\ elog' = [elog EXCEPT ![w] = Append(@, "lr_step")]
    /\ epoch' = [epoch EXCEPT ![w] = @ + 1]
    /\ pc' = [pc EXCEPT ![w] = "epoch"]
    /\ UNCHANGED << glob, file, syncval, batch, sampler_epoch, epochs_run, weights, grad,
                    optim, evalv, bestv, blog, mlog, clog, ck >>

\* the final barrier entered by the main process only, the others entering a
\* metric synchronization
Barrier_main_only(w) ==
    /\ pc[w] = "barrier"
    /\ IF ~pg_initialized
       THEN pc' = [pc EXCEPT ![w] = "raised"] /\ UNCHANGED clog
       ELSE IF is_main_process(w)
            THEN /\ clog' = [clog EXCEPT ![w] = Append(@, "barrier")]
                 /\ pc' = [pc EXCEPT ![w] = "barrier_wait"]
            ELSE /\ clog' = [clog EXCEPT ![w] = Append(@, "sync")]
                 /\ pc' = [pc EXCEPT ![w] = "barrier_wait"]
    /\ UNCHANGED << glob, file, syncval, loopv, trainv, evalv, bestv, logv, ck >>

\* distill, line 176: dist.barrier(), called in every mode; without a default
\* process group the call raises
Barrier(w) ==
    /\ pc[w] = "barrier"
    /\ IF ~pg_initialized
       THEN pc' = [pc EXCEPT ![w] = "raised"] /\ UNCHANGED clog
       ELSE /\ clog' = [clog EXCEPT ![w] = Append(@, "barrier")]
            /\ pc' = [pc EXCEPT ![w] = "barrier_wait"]
    /\ UNCHANGED << glob, file, syncval, loopv, trainv, evalv, bestv, logv, ck >>

\* distill, lines 176-179: the barrier is passed and distill returns
BarrierPass(w) ==
    /\ pc[w] = "barrier_wait"
    /\ AllArrived(w)
    /\ pc' = [pc EXCEPT ![w] = "reload"]
    /\ UNCHANGED << glob, file, syncval, loopv, trainv, evalv, bestv, logv, clog, ck >>

\* main going on to the test split without reloading the checkpoint
Reload_skipped(w) ==
    /\ pc[w] = "reload"
    /\ pc' = [pc EXCEPT ![w] = "test"]
    /\ UNCHANGED << glob, file, syncval, loopv, trainv, evalv, bestv, logv, clog, ck >>

\* main, lines 228-230
Reload(w) ==
    /\ pc[w] = "reload"
    /\ LET r == main_reload(file, student_model(w))
       IN  /\ weights' = [weights EXCEPT ![w] = r.w]
           /\ pc' = [pc EXCEPT ![w] = IF r.raised THEN "raised" ELSE "test"]
    /\ UNCHANGED << glob, file, syncval, loopv, grad, optim, sched, evalv, bestv, logv,
                    clog, ck >>

\* main, lines 232-234: the teacher unless -student_only, then the student
Test(w) ==
    /\ pc[w] = "test"
    /\ site' = [site EXCEPT ![w] = IF ~argv.student_only THEN "teacher" ELSE "student"]
    /\ pc' = [pc EXCEPT ![w] = "evaluate"]
    /\ UNCHANGED << glob, file, syncval, loopv, trainv, threads, num_threads, smode, tmode,
                    bestv, logv, clog, ck >>

\* the program is invoked again on the same file system once every process of
\* the previous invocation has ended
Restart ==
    /\ run < MaxRuns
    /\ \A w \in World : pc[w] \in {"done", "raised"}
    /\ run' = run + 1
    /\ argv' \in ArgSet
    /\ UNCHANGED << distributed, file, ck >>
    /\ ProcReset(distributed)

Next ==
    \/ \E w \in Ranks :
        \/ Main(w) \/ DistillInit(w) \/ EpochHead(w)
        \/ Forward(w) \/ ZeroGrad(w) \/ Backward(w) \/ OptimizerStep(w) \/ UpdateMeters(w)
        \/ EvalBegin(w) \/ EvalSync(w) \/ EvalEnd(w)
        \/ Compare(w) \/ LrStep(w) \/ Barrier(w) \/ Test(w)
    \/ Restart

Spec == Init /\ [][Next]_vars

\* ------------------------------------------------------- distributed run
\* a checkpoint an earlier invocation can have left: saved after its first
\* epoch with the highest accuracy
OldCkpt ==
    save_ckpt([ddp |-> FALSE, w |-> NumBatches], NumBatches, 0, MaxAcc, Config, NoArgs,
              NoFile, 0)

\* NumWorkers processes started with the same command line (mixed precision
\* off), with or without a checkpoint of an earlier invocation
InitDist ==
    /\ run = 1
    /\ distributed = TRUE
    /\ argv \in { a \in ArgSet : ~a.apex }
    /\ file \in {NoFile, OldCkpt}
    /\ ProcInit(TRUE)
    /\ ck = CkIdle

Step(w) ==
    \/ Main(w) \/ DistillInit(w) \/ EpochHead(w)
    \/ Forward(w) \/ ZeroGrad(w) \/ Backward(w) \/ OptimizerStep(w) \/ UpdateMeters(w)
    \/ EvalBegin(w) \/ EvalSync(w) \/ EvalEnd(w)
    \/ Compare(w) \/ LrStep(w) \/ Barrier(w) \/ BarrierPass(w) \/ Reload(w) \/ Test(w)

NextDist == \E w \in Ranks : Step(w)

SpecDist == InitDist /\ [][NextDist]_vars

\* the distributed run whose termination is examined: no earlier checkpoint,
\* only the student tested afterwards
InitFair == InitDist /\ argv.student_only /\ file = NoFile

\* every process keeps running: a process that can take a step eventually takes it
FairDist == InitFair /\ [][NextDist]_vars /\ \A w \in Ranks : WF_vars(Step(w))

\* ------------------------------------------- the checkpoint store on its own
States == 0 .. MaxState
Models == [ddp : BOOLEAN, w : States]
ArgsSaved == {NoArgs, [NoArgs EXCEPT !.apex = TRUE]}

\* the objects to save (model, optimizer, lr_scheduler) are drawn from bounded
\* sets; the objects to load into (model2, optimizer2, lr_scheduler2) are newly
\* constructed, the model wrapped or not; no file yet
InitCkpt ==
    /\ run = 1
    /\ distributed = FALSE
    /\ argv = NoArgs
    /\ file = NoFile
    /\ ProcInit(FALSE)
    /\ ck \in { [CkIdle EXCEPT !.model = m1, !.optimizer = o1, !.lr_scheduler = s1,
                               !.model2 = [ddp |-> d2, w |-> 0], !.last = "init"] :
                  m1 \in Models, o1 \in States, s1 \in States, d2 \in BOOLEAN }

flowv == << run, distributed, argv, file, syncval, vals, pc, site, epoch, batch, weights,
            grad, optim, sched, best, val, smode, tmode, threads, num_threads,
            sampler_epoch, clog, elog, blog, mlog, epochs_run >>

CkPre == Some([model |-> ck.model2, optimizer |-> ck.optimizer2,
               lr_scheduler |-> ck.lr_scheduler2])

\* save_ckpt(model, optimizer, lr_scheduler, best_value, config, args, path) on
\* the process of the given rank
CkSave(rank, best_value, a) ==
    /\ ck' = [ck EXCEPT
                !.file = save_ckpt(ck.model, ck.optimizer, ck.lr_scheduler, best_value,
                                   Config, a, ck.file, rank),
                !.src = IF is_main_process(rank)
                        THEN Some([model |-> ck.model, optimizer |-> ck.optimizer,
                                   lr_scheduler |-> ck.lr_scheduler,
                                   best_value |-> best_value, args |-> a])
                        ELSE @,
                !.ret = << >>, !.raised = FALSE, !.last = "save"]
    /\ UNCHANGED flowv

\* load_ckpt(path, model2 or None, optimizer2 or None, lr_scheduler2 or None, strict)
CkLoad(pm, po, ps, strict) ==
    /\ LET r == load_ckpt(ck.file,
                          IF pm THEN Some(ck.model2) ELSE None,
                          IF po THEN Some(ck.optimizer2) ELSE None,
                          IF ps THEN Some(ck.lr_scheduler2) ELSE None, strict)
       IN  ck' = [ck EXCEPT
                    !.model2 = IF IsNone(r.model) THEN @ ELSE r.model[1],
                    !.optimizer2 = IF IsNone(r.optimizer) THEN @ ELSE r.optimizer[1],
                    !.lr_scheduler2 = IF IsNone(r.lr_scheduler) THEN @ ELSE r.lr_scheduler[1],
                    !.ret = r.ret, !.raised = r.raised, !.last = "load",
                    !.pre = CkPre, !.passed = << pm, po, ps >>]
    /\ UNCHANGED flowv

\* get_model on a freshly constructed model
CkGetModel ==
    /\ LET fresh == [ddp |-> FALSE, w |-> 0]
           r == get_model(ck.file, fresh)
       IN  ck' = [ck EXCEPT
                    !.model2 = r.model, !.ret = << >>, !.raised = r.raised,
                    !.last = "get_model",
                    !.pre = Some([model |-> fresh, optimizer |-> ck.optimizer2,
                                  lr_scheduler |-> ck.lr_scheduler2]),
                    !.passed = << TRUE, FALSE, FALSE >>]
    /\ UNCHANGED flowv

\* the resume block of distill
CkDistill ==
    /\ LET r == distill_resume(ck.file, ck.optimizer2, ck.lr_scheduler2)
       IN  ck' = [ck EXCEPT
                    !.optimizer2 = r.optimizer, !.lr_scheduler2 = r.lr_scheduler,
                    !.ret = << >>, !.raised = r.raised, !.last = "distill",
                    !.pre = CkPre, !.passed = << FALSE, TRUE, TRUE >>]
    /\ UNCHANGED flowv

\* main's reload of the student after distill
CkMain ==
    /\ LET r == main_reload(ck.file, ck.model2)
       IN  ck' = [ck EXCEPT
                    !.model2 = [@ EXCEPT !.w = r.w], !.ret = << >>, !.raised = r.raised,
                    !.last = "main", !.pre = CkPre,
                    !.passed = << TRUE, FALSE, FALSE >>]
    /\ UNCHANGED flowv

NextCkpt ==
    \/ \E rank \in Ranks, b \in Acc, a \in ArgsSaved : CkSave(rank, b, a)
    \/ \E pm \in BOOLEAN, po \in BOOLEAN, ps \in BOOLEAN, strict \in BOOLEAN :
         CkLoad(pm, po, ps, strict)
    \/ CkGetModel
    \/ CkDistill
    \/ CkMain

SpecCkpt == InitCkpt /\ [][NextCkpt]_vars

\* ------------------------------------------------------------------ claims
IsPrefix(s, t) == Len(s) <= Len(t) /\ \A i \in 1 .. Len(s) : s[i] = t[i]

Max(a, b) == IF a >= b THEN a ELSE b

\* number of epochs distill runs for the command line
EpochsToRun == Max(0, NumEpochs - argv.start_epoch)

\* C1: in distill the epochs start_epoch .. train_config['epoch']-1 are run in
\* increasing order, each once; within an epoch the steps are the training pass,
\* one validation evaluate, the optional checkpoint save, one lr_scheduler.step(),
\* in this order; with start_epoch >= train_config['epoch'] no epoch is run and no
\* checkpoint is written.
C1_StepsInOrder ==
    \A w \in World :
        /\ \/ IsPrefix(elog[w], << "train", "evaluate", "save", "lr_step" >>)
           \/ IsPrefix(elog[w], << "train", "evaluate", "lr_step" >>)
        /\ Len(epochs_run[w]) <= EpochsToRun
        /\ \A i \in 1 .. Len(epochs_run[w]) : epochs_run[w][i] = argv.start_epoch + i - 1
        /\ (pc[w] = "epoch" /\ epochs_run[w] # << >>) =>
              /\ epoch[w] = argv.start_epoch + Len(epochs_run[w])
              /\ elog[w] \in { << "train", "evaluate", "save", "lr_step" >>,
                               << "train", "evaluate", "lr_step" >> }
        /\ pc[w] = "barrier" => Len(epochs_run[w]) = EpochsToRun

C1_NoEpochNoSave ==
    (argv.start_epoch >= NumEpochs /\ run' = run) => file' = file

C1_EpochOrder == ([] C1_StepsInOrder) /\ [][C1_NoEpochNoSave]_vars

C1_Witness ==
    /\ pc[0] = "barrier"
    /\ Len(epochs_run[0]) = NumEpochs
    /\ elog[0] = << "train", "evaluate", "save", "lr_step" >>

\* the largest accuracy of a non-empty history and the first epoch reaching it
RECURSIVE MaxOf(_)
MaxOf(s) == IF Len(s) = 1 THEN s[1] ELSE Max(MaxOf(SubSeq(s, 1, Len(s) - 1)), s[Len(s)])

FirstMax(s) == CHOOSE i \in 1 .. Len(s) :
                  s[i] = MaxOf(s) /\ \A j \in 1 .. (i - 1) : s[j] < s[i]

\* C2: within one call of distill on the main process a checkpoint is saved at
\* the end of an epoch iff the epoch's validation accuracy is strictly greater
\* than the best tracked so far; the tracked best never decreases; the best_value
\* of successive saves strictly increases; the last saved checkpoint carries the
\* maximum validation accuracy of the epochs run so far, the earliest on ties.
C2_SaveIffBetter ==
    (pc[0] = "compare" /\ pc'[0] = "lr_step") =>
        /\ ("save" = elog'[0][Len(elog'[0])]) <=> (val[0] > best[0])
        /\ val[0] > best[0] =>
              /\ file'.exists /\ file'.best_value = val[0]
              /\ file'.model = [prefix |-> "", w |-> weights[0]]
              /\ best[0] > 0 => file'.best_value > file.best_value
        /\ ~(val[0] > best[0]) => file' = file

C2_BestMonotone == run' = run => best'[0] >= best[0]

C2_LastSaveIsMax ==
    (pc[0] \notin {"distill", "compare"} /\ vals # << >>) =>
        /\ best[0] = MaxOf(vals)
        /\ best[0] > 0 =>
              /\ file.exists
              /\ file.best_value = MaxOf(vals)
              /\ file.model.w = FirstMax(vals) * NumBatches

C2_BestCheckpoint ==
    ([] C2_LastSaveIsMax) /\ [][C2_SaveIffBetter]_vars /\ [][C2_BestMonotone]_vars

C2_Witness ==
    /\ pc[0] = "lr_step"
    /\ Len(vals) = 2 /\ vals[1] = vals[2] /\ vals[1] > 0
    /\ file.model.w = NumBatches

\* C3: the best_value stored in an existing checkpoint is the baseline of a new
\* run: across runs the best_value in the file never decreases and the file is
\* never overwritten by a model whose validation accuracy is lower than the one
\* stored.
C3_FileNeverDecreases ==
    [][file.exists => (file'.exists /\ file'.best_value >= file.best_value)]_vars

\* C5: a call of evaluate leaves the model parameters, the optimizer state, the
\* scheduler state, the tracked best accuracy and the checkpoint file unchanged;
\* on return the number of framework threads is what it was before the call; the
\* evaluated model is left in eval mode.
EvalPcs == {"evaluate", "synchronize", "eval_end"}

C5_Frame ==
    \A w \in World :
        (pc[w] \in EvalPcs /\ pc'[w] # pc[w]) =>
            /\ weights'[w] = weights[w] /\ grad'[w] = grad[w]
            /\ optim'[w] = optim[w] /\ sched'[w] = sched[w]
            /\ best'[w] = best[w] /\ file' = file
            /\ pc[w] = "eval_end" =>
                  IF site[w] = "teacher"
                  THEN tmode'[w] = "eval" /\ smode'[w] = smode[w]
                  ELSE smode'[w] = "eval" /\ tmode'[w] = tmode[w]

C5_Threads ==
    \A w \in World : pc[w] \notin {"synchronize", "eval_end"} => threads[w] = NumThreads

C5_InferenceOnly == ([] C5_Threads) /\ [][C5_Frame]_vars

C5_Witness ==
    /\ pc[0] = "compare"
    /\ weights[0] = NumBatches
    /\ smode[0] = "eval"
    /\ threads[0] = NumThreads

\* C7: in distill_one_epoch every batch goes through forward (loss), zero_grad,
\* backward (scaled under apex), optimizer.step(), meters update, once each and in
\* this order; the optimizer steps of an epoch number its batches and the
\* gradients a step applies come from one backward pass only.
BatchSteps ==
    << "forward", "zero_grad", IF argv.apex THEN "scaled_backward" ELSE "backward",
       "step", "meters" >>

BatchPcs == {"forward", "zero_grad", "backward", "step", "meters"}

C7_BatchOrder ==
    \A w \in World :
        /\ IsPrefix(blog[w], BatchSteps)
        /\ pc[w] = "step" => grad[w] = 1
        /\ pc[w] \in BatchPcs =>
              weights[w] = (Len(epochs_run[w]) - 1) * NumBatches + batch[w]
                           + (IF pc[w] = "meters" THEN 1 ELSE 0)
        /\ ((pc[w] \in EvalPcs /\ site[w] = "val") \/ pc[w] \in {"compare", "lr_step"}) =>
              /\ weights[w] = Len(epochs_run[w]) * NumBatches
              /\ blog[w] = BatchSteps
        /\ (pc[w] \in {"forward", "zero_grad"} /\ batch[w] > 0) =>
              blog[w] \in {BatchSteps, << "forward" >>}

C7_Witness ==
    /\ pc[0] = "step"
    /\ batch[0] = 1
    /\ argv.apex
    /\ blog[0] = << "forward", "zero_grad", "scaled_backward" >>

\* C10: in a non-distributed run distill calls neither the sampler's set_epoch
\* nor the process-group barrier, so it returns normally.
C10_NoDistributedOps ==
    ~distributed =>
        \A w \in World : sampler_epoch[w] = None /\ pc[w] \notin {"barrier_wait", "raised"}

C8_NotFound ==
    (ck.last \in {"load", "get_model", "distill", "main"} /\ ~ck.file.exists) =>
        /\ ~ck.raised
        /\ ck.model2 = ck.pre[1].model
        /\ ck.optimizer2 = ck.pre[1].optimizer
        /\ ck.lr_scheduler2 = ck.pre[1].lr_scheduler
        /\ ck.last = "load" => (Len(ck.ret) = 2 /\ IsNone(ck.ret[1]) /\ IsNone(ck.ret[2]))

C8_Witness ==
    /\ ck.last = "distill"
    /\ ~ck.file.exists
    /\ ~ck.raised

\* a process has passed the final barrier of distill
Returned(w) == pc[w] \in {"reload", "test", "done"} \/ (pc[w] \in EvalPcs /\ site[w] # "val")

\* the collective operations of distill for the command line
DistillCollectives ==
    [i \in 1 .. (EpochsToRun + 1) |-> IF i <= EpochsToRun THEN "sync" ELSE "barrier"]

\* C6: in a distributed run whose workers all call distill with the same
\* start_epoch and epoch count, every worker performs the same sequence of
\* collective operations (one metric synchronization per epoch, then the final
\* barrier) although only the main process saves; every worker eventually passes
\* the final barrier and returns from distill.
C6_SameCollectives ==
    ~argv.test_only =>
        \A w \in World :
            /\ IF Returned(w)
               THEN IsPrefix(DistillCollectives, clog[w])
               ELSE IsPrefix(clog[w], DistillCollectives)
            /\ ~is_main_process(w) => best[w] = 0 /\ \A i \in 1 .. Len(elog[w]) : elog[w][i] # "save"

C6_AllReturn == (~argv.test_only) ~> (\A w \in World : Returned(w))

C6_NoWorkerHangs == ([] C6_SameCollectives) /\ C6_AllReturn

C6_Witness ==
    /\ argv.start_epoch = 0
    /\ \A w \in World : pc[w] = "reload" /\ clog[w] = DistillCollectives
    /\ best[0] = MaxAcc

\* C9: without -test_only the student evaluated on the test split after distill
\* carries the weights of the checkpoint whenever the file exists (the best
\* validation epoch, not necessarily the last one trained); with -test_only no
\* training step is run and no checkpoint is written; the teacher is evaluated
\* before the student and only without -student_only.
C9_StudentFromCheckpoint ==
    \A w \in World :
        /\ (~argv.test_only /\ file.exists /\
            (pc[w] = "done" \/ (pc[w] \in EvalPcs /\ site[w] = "student"))) =>
              weights[w] = file.model.w
        /\ mlog[w] \in (IF argv.student_only THEN { << >>, << "student" >> }
                        ELSE { << >>, << "teacher" >>, << "teacher", "student" >> })
        /\ pc[w] = "done" => mlog[w][Len(mlog[w])] = "student"

C9_TestOnlyFrame ==
    argv.test_only => (file' = file /\ weights' = weights /\ optim' = optim
                       /\ sched' = sched /\ epochs_run' = epochs_run)

C9_TestAfterDistill == ([] C9_StudentFromCheckpoint) /\ [][C9_TestOnlyFrame]_vars

C9_Witness ==
    /\ ~argv.test_only /\ ~argv.student_only /\ argv.start_epoch = 0
    /\ pc[1] = "done"
    /\ mlog[1] = << "teacher", "student" >>
    /\ file.exists /\ best[0] > 0
    /\ file.model.w = NumBatches
    /\ weights[1] = NumBatches

====
